---- MODULE Spec2Model ----
(***************************************************************************)
(* Observability bootstrap (instrumentation.js) and preflight validator    *)
(* (scripts/validate-env.js) of profiles-project.                          *)
(*                                                                         *)
(* JavaScript strings are sequences of one-character strings, so that      *)
(* split, indexOf, slice, trim, includes and startsWith are computed as    *)
(* the code computes them.  A JavaScript value that may be undefined is a  *)
(* record with a "set" (or "type") field.                                  *)
(***************************************************************************)
EXTENDS Integers, Sequences, FiniteSets, TLC

(***************************************************************************)
(* Bounds of the model.                                                    *)
(***************************************************************************)
\* longest raw string handed to the parsers in SpecParse
MaxLen == 5

\* most comma-separated segments of a raw string of SpecParse built from segments
MaxSegments == 3

\* most pieces an endpoint string of SpecNormalize is made of
MaxPieces == 4

\* how many times SpecNormalize applies the normalization in a row
MaxNormalizations == 2

\* most calls of a logger in SpecLogger
MaxCalls == 2

\* most requests made to the services in SpecItems
MaxRequests == 3

(***************************************************************************)
(* String literals of the source.                                          *)
(***************************************************************************)
S_Authorization == <<"A","u","t","h","o","r","i","z","a","t","i","o","n">>
S_grafana_net == <<"g","r","a","f","a","n","a",".","n","e","t">>
S_http == <<"h","t","t","p">>
S_https_prefix == <<"h","t","t","p","s",":","/","/">>
S_v1_traces == <<"/","v","1","/","t","r","a","c","e","s">>
S_ingest == <<"/","i","n","g","e","s","t">>
S_false == <<"f","a","l","s","e">>
S_disabled == <<"d","i","s","a","b","l","e","d">>
S_simple == <<"s","i","m","p","l","e">>
S_service_name == <<"s","e","r","v","i","c","e",".","n","a","m","e">>
DEFAULT_PYROSCOPE_URL == <<"h","t","t","p",":","/","/","l","o","c","a","l","h","o","s","t",":","4","0","4","0">>

(***************************************************************************)
(* JavaScript String.prototype operations, 0-based as in the language.     *)
(***************************************************************************)
\* characters String.prototype.trim removes (those that occur in the model)
WhiteSpace == {" "}

\* s.indexOf(c) for a one-character c: first 0-based position, -1 if none
IndexOf(s, c) ==
  IF \E i \in 1..Len(s) : s[i] = c
    THEN (CHOOSE i \in 1..Len(s) : s[i] = c /\ \A j \in 1..(i - 1) : s[j] # c) - 1
    ELSE -1

\* s.slice(from, to) for 0 <= from, to <= s.length
Slice(s, from, to) == SubSeq(s, from + 1, to)

\* s.slice(from)
SliceFrom(s, from) == SubSeq(s, from + 1, Len(s))

\* s.includes(sub)
Includes(s, sub) ==
  \E i \in 0..(Len(s) - Len(sub)) : SubSeq(s, i + 1, i + Len(sub)) = sub

\* s.startsWith(p)
StartsWith(s, p) == Len(p) <= Len(s) /\ SubSeq(s, 1, Len(p)) = p

RECURSIVE TrimStart(_)
TrimStart(s) ==
  IF s # <<>> /\ Head(s) \in WhiteSpace THEN TrimStart(Tail(s)) ELSE s

RECURSIVE TrimEnd(_)
TrimEnd(s) ==
  IF s # <<>> /\ s[Len(s)] \in WhiteSpace THEN TrimEnd(SubSeq(s, 1, Len(s) - 1)) ELSE s

\* s.trim()
Trim(s) == TrimEnd(TrimStart(s))

\* s.split(c) for a one-character separator: never empty, "" gives [""]
RECURSIVE Split(_, _)
Split(s, c) ==
  LET idx == IndexOf(s, c)
  IN IF idx = -1 THEN <<s>>
     ELSE <<Slice(s, 0, idx)>> \o Split(SliceFrom(s, idx + 1), c)

\* s.replace(/\/$/, ''): one trailing slash removed
StripTrailingSlash(s) ==
  IF s # <<>> /\ s[Len(s)] = "/" THEN SubSeq(s, 1, Len(s) - 1) ELSE s

(***************************************************************************)
(* JavaScript values.                                                      *)
(***************************************************************************)
\* process.env.X of a variable that is not set
Unset == [set |-> FALSE, val |-> <<>>]

\* process.env.X of a variable set to the string s
Str(s) == [set |-> TRUE, val |-> s]

\* !v for v undefined or a string: undefined and "" are falsy
Falsy(v) == ~v.set \/ v.val = <<>>

\* v || d for v undefined or a string and d a string
OrDefault(v, d) == IF Falsy(v) THEN d ELSE v.val

\* the value undefined where an object may be returned
Undefined == [type |-> "undefined"]

\* a plain object used as a string-to-string mapping
Obj(m) == [type |-> "object", map |-> m]

\* {}
EmptyMap == [k \in {} |-> <<>>]

\* h[key] = value
MapSet(m, k, v) == [x \in (DOMAIN m) \cup {k} |-> IF x = k THEN v ELSE m[x]]

\* { ...a, ...b }: the properties of b override those of a
Spread(a, b) == [x \in (DOMAIN a) \cup (DOMAIN b) |-> IF x \in DOMAIN b THEN b[x] ELSE a[x]]

(***************************************************************************)
(* Header and resource-attribute parsers.                                  *)
(***************************************************************************)
\* HeaderPair without the test of the value: if (key) in place of if (key && value)
HeaderPair_EmptyValue(h, pair) ==
  LET idx == IndexOf(pair, "=")
      key == Trim(Slice(pair, 0, idx))
      value == Trim(SliceFrom(pair, idx + 1))
  IN IF idx = -1 THEN h
     ELSE IF key # <<>> THEN MapSet(h, key, value) ELSE h

\* body of the forEach callback shared by parseOtlpHeaders and parseHeaders:
\* split once on the first '=', trim both sides, keep when both non-empty
HeaderPair(h, pair) ==
  LET idx == IndexOf(pair, "=")
      key == Trim(Slice(pair, 0, idx))
      value == Trim(SliceFrom(pair, idx + 1))
  IN IF idx = -1 THEN h
     ELSE IF key # <<>> /\ value # <<>> THEN MapSet(h, key, value) ELSE h

RECURSIVE HeaderPairs(_, _)
HeaderPairs(h, pairs) ==
  IF pairs = <<>> THEN h ELSE HeaderPairs(HeaderPair(h, Head(pairs)), Tail(pairs))

\* instrumentation.js parseOtlpHeaders(headerStr); headerStr may be undefined
parseOtlpHeaders(headerStr) ==
  IF Falsy(headerStr) THEN Undefined
  ELSE LET headers == HeaderPairs(EmptyMap, Split(headerStr.val, ","))
       IN IF DOMAIN headers # {} THEN Obj(headers) ELSE Undefined

\* parseHeaders going through the pairs from the last to the first, so that
\* the first value of a repeated key is the one kept
parseHeaders_FirstWins(headerStr) ==
  LET pairs == Split(headerStr, ",")
  IN Obj(HeaderPairs(EmptyMap, [i \in 1..Len(pairs) |-> pairs[Len(pairs) + 1 - i]]))

\* validate-env.js parseHeaders(headerStr) inside validateOtlp; a string
parseHeaders(headerStr) == Obj(HeaderPairs(EmptyMap, Split(headerStr, ",")))

\* body of the forEach callback of parseResourceAttributes:
\* [key, value] = pair.split('=').map(trim), the parts after the second dropped
AttrPair(attrs, pair) ==
  LET parts == Split(pair, "=")
      key == Trim(parts[1])
      hasValue == Len(parts) >= 2
      value == IF hasValue THEN Trim(parts[2]) ELSE <<>>
  IN IF key # <<>> /\ hasValue /\ value # <<>> THEN MapSet(attrs, key, value) ELSE attrs

RECURSIVE AttrPairs(_, _)
AttrPairs(attrs, pairs) ==
  IF pairs = <<>> THEN attrs ELSE AttrPairs(AttrPair(attrs, Head(pairs)), Tail(pairs))

\* instrumentation.js parseResourceAttributes(attrStr); attrStr may be undefined
parseResourceAttributes(attrStr) ==
  IF Falsy(attrStr) THEN Obj(EmptyMap)
  ELSE Obj(AttrPairs(EmptyMap, Split(attrStr.val, ",")))

(***************************************************************************)
(* Names of the environment variables and further literals of the source.  *)
(***************************************************************************)
N_OTLP_ENDPOINT == <<"O","T","E","L","_","E","X","P","O","R","T","E","R","_","O","T","L","P","_","E","N","D","P","O","I","N","T">>
N_OTLP_HEADERS == <<"O","T","E","L","_","E","X","P","O","R","T","E","R","_","O","T","L","P","_","H","E","A","D","E","R","S">>
N_PYROSCOPE_URL == <<"P","Y","R","O","S","C","O","P","E","_","U","R","L">>
N_PYROSCOPE_USER == <<"P","Y","R","O","S","C","O","P","E","_","B","A","S","I","C","_","A","U","T","H","_","U","S","E","R">>
N_PYROSCOPE_PASSWORD == <<"P","Y","R","O","S","C","O","P","E","_","B","A","S","I","C","_","A","U","T","H","_","P","A","S","S","W","O","R","D">>
N_RESOURCE_ATTRIBUTES == <<"O","T","E","L","_","R","E","S","O","U","R","C","E","_","A","T","T","R","I","B","U","T","E","S">>
N_SPAN_PROCESSOR == <<"O","T","E","L","_","S","P","A","N","_","P","R","O","C","E","S","S","O","R">>
N_METRICS_ENABLED == <<"O","T","E","L","_","M","E","T","R","I","C","S","_","E","N","A","B","L","E","D">>
N_LOGS_ENABLED == <<"O","T","E","L","_","L","O","G","S","_","E","N","A","B","L","E","D">>
N_DEBUG == <<"D","E","B","U","G">>
S_ContentType == <<"C","o","n","t","e","n","t","-","T","y","p","e">>
S_application_json == <<"a","p","p","l","i","c","a","t","i","o","n","/","j","s","o","n">>
S_pyroscope == <<"p","y","r","o","s","c","o","p","e">>
S_otel == <<"o","t","e","l">>

(***************************************************************************)
(* The process environment and the .env file.                              *)
(***************************************************************************)
\* process.env is a mapping from the names of the variables that are set
\* to their values; process.env[name] of any other name is undefined
Getenv(e, name) == IF name \in DOMAIN e THEN Str(e[name]) ELSE Unset

\* val.replace(/^["']|["']$/g, ''): one leading and one trailing quote removed
StripQuotes(s) ==
  LET Quote == {"\"", "'"}
      s1 == IF s # <<>> /\ Head(s) \in Quote THEN Tail(s) ELSE s
  IN IF s1 # <<>> /\ s1[Len(s1)] \in Quote THEN SubSeq(s1, 1, Len(s1) - 1) ELSE s1

\* line.match(/^([^#=]+)=(.*)$/): a non-empty prefix without '#' up to the first '='
LineMatches(line) ==
  LET idx == IndexOf(line, "=")
  IN idx >= 1 /\ \A i \in 1..idx : line[i] # "#"

\* body of the forEach callback of the .env loader on one line
LoadLine(e, line) ==
  LET idx == IndexOf(line, "=")
      key == Trim(Slice(line, 0, idx))
      val == StripQuotes(Trim(SliceFrom(line, idx + 1)))
  IN IF LineMatches(line) /\ Falsy(Getenv(e, key)) THEN MapSet(e, key, val) ELSE e

RECURSIVE LoadLines(_, _)
LoadLines(e, lines) ==
  IF lines = <<>> THEN e ELSE LoadLines(LoadLine(e, Head(lines)), Tail(lines))

\* the .env loader at the top of validate-env.js (and of verify-otel-config.js)
LoadEnvFile(e, file) ==
  IF file.exists THEN LoadLines(e, Split(file.content, "\n")) ELSE e

(***************************************************************************)
(* Preflight validator (scripts/validate-env.js): pure parts.              *)
(***************************************************************************)
\* IsGrafanaCloud without the domain test: any configured endpoint is probed
IsGrafanaCloud_AnyEndpoint(v) == ~Falsy(v)

\* the cloud test of both validators: v && v.includes('grafana.net')
IsGrafanaCloud(v) == ~Falsy(v) /\ Includes(v.val, S_grafana_net)

\* baseUrl, normalized and tracesUrl of validateOtlp
TracesUrl(endpoint) ==
  LET baseUrl == IF StartsWith(endpoint, S_http) THEN endpoint ELSE S_https_prefix \o endpoint
      normalized == StripTrailingSlash(baseUrl)
  IN IF Includes(normalized, S_v1_traces) THEN normalized ELSE normalized \o S_v1_traces

\* ingestUrl of validatePyroscope
IngestUrl(pyroscopeUrl) == StripTrailingSlash(pyroscopeUrl) \o S_ingest

\* a ValidationOutcome: { ok, skip }, skip undefined read as false
Outcome(ok, skip) == [done |-> TRUE, ok |-> ok, skip |-> skip]

\* no outcome yet
NoOutcome == [done |-> FALSE, ok |-> FALSE, skip |-> FALSE]

\* what a fetch call can settle to: a response with a status, or a rejection
StatusReply(s) == [kind |-> "status", status |-> s]

NetworkError == [kind |-> "error", status |-> 0]

NoReply == [kind |-> "none", status |-> 0]

\* OtlpOutcome with status > 400 in place of status >= 400
OtlpOutcome_Above400(reply) ==
  IF reply.kind = "error" THEN Outcome(FALSE, FALSE)
  ELSE IF reply.status = 401 \/ reply.status = 403 THEN Outcome(FALSE, FALSE)
  ELSE IF reply.status > 400 THEN Outcome(FALSE, FALSE)
  ELSE Outcome(TRUE, FALSE)

\* validateOtlp after the await: the try body and the catch
OtlpOutcome(reply) ==
  IF reply.kind = "error" THEN Outcome(FALSE, FALSE)
  ELSE IF reply.status = 401 \/ reply.status = 403 THEN Outcome(FALSE, FALSE)
  ELSE IF reply.status >= 400 THEN Outcome(FALSE, FALSE)
  ELSE Outcome(TRUE, FALSE)

\* the line validateOtlp prints for a reply
OtlpMessage(reply) ==
  IF reply.kind = "error" THEN <<"OTLP validation failed: (network error)">>
  ELSE IF reply.status = 401 \/ reply.status = 403
    THEN <<"OTLP validation failed: Auth rejected (401/403)">>
  ELSE IF reply.status >= 400 THEN <<"OTLP validation failed: (status)">>
  ELSE <<>>

\* PyroOutcome with the tracing probe's rule for statuses >= 400
PyroOutcome_Strict(reply) ==
  IF reply.kind = "error" THEN Outcome(FALSE, FALSE)
  ELSE IF reply.status = 401 \/ reply.status = 403 THEN Outcome(FALSE, FALSE)
  ELSE IF reply.status >= 400 THEN Outcome(FALSE, FALSE)
  ELSE Outcome(TRUE, FALSE)

\* validatePyroscope after the await: the try body and the catch
PyroOutcome(reply) ==
  IF reply.kind = "error" THEN Outcome(FALSE, FALSE)
  ELSE IF reply.status = 401 \/ reply.status = 403 THEN Outcome(FALSE, FALSE)
  ELSE Outcome(TRUE, FALSE)

\* the line validatePyroscope prints for a reply
PyroMessage(reply) ==
  IF reply.kind = "error" THEN <<"Pyroscope validation failed: (network error)">>
  ELSE IF reply.status = 401 \/ reply.status = 403
    THEN <<"Pyroscope validation failed: Auth rejected (401/403)">>
  ELSE <<>>

\* Failed with the negation dropped
Failed_Inverted(result) == result.ok

\* main: if (!result.ok) process.exit(1)
Failed(result) == ~result.ok

(***************************************************************************)
(* Instrumentation (instrumentation.js): pure parts.                       *)
(***************************************************************************)
Letters ==
  {"a","b","c","d","e","f","g","h","i","j","k","l","m","n","o","p","q","r","s","t",
   "u","v","w","x","y","z","A","B","C","D","E","F","G","H","I","J","K","L","M","N",
   "O","P","Q","R","S","T","U","V","W","X","Y","Z"}

Digits == {"0","1","2","3","4","5","6","7","8","9"}

\* whether new URL(url) returns instead of throwing: a scheme (a letter, then
\* letters, digits, '+', '-', '.') before the first ':', and for http and
\* https a non-empty host after the slashes
IsValidUrl(url) ==
  LET idx == IndexOf(url, ":")
      scheme == Slice(url, 0, idx)
      rest == SliceFrom(url, idx + 1)
      RECURSIVE SkipSlashes(_)
      SkipSlashes(r) == IF r # <<>> /\ Head(r) \in {"/", "\\"} THEN SkipSlashes(Tail(r)) ELSE r
      host == SkipSlashes(rest)
  IN /\ idx >= 1
     /\ url[1] \in Letters
     /\ \A i \in 1..idx : url[i] \in Letters \cup Digits \cup {"+", "-", "."}
     /\ scheme \in {S_http, S_http \o <<"s">>} => (host # <<>> /\ Head(host) \notin {":", "?", "#"})

\* isPyroscopeEnabled without the fallback to DEFAULT_PYROSCOPE_URL
isPyroscopeEnabled_NoDefault(e) ==
  LET url == OrDefault(Getenv(e, N_PYROSCOPE_URL), <<>>)
  IN IF url = <<>> \/ url = S_false \/ url = S_disabled
       THEN [enabled |-> FALSE, reason |-> [text |-> "PYROSCOPE_URL not set or disabled", url |-> <<>>]]
     ELSE IF ~IsValidUrl(url)
       THEN [enabled |-> FALSE, reason |-> [text |-> "Invalid PYROSCOPE_URL: ", url |-> url]]
     ELSE [enabled |-> TRUE, reason |-> [text |-> "Configured: ", url |-> url]]

\* isPyroscopeEnabled() as exported; e is process.env
isPyroscopeEnabled(e) ==
  LET url == OrDefault(Getenv(e, N_PYROSCOPE_URL), DEFAULT_PYROSCOPE_URL)
  IN IF url = <<>> \/ url = S_false \/ url = S_disabled
       THEN [enabled |-> FALSE, reason |-> [text |-> "PYROSCOPE_URL not set or disabled", url |-> <<>>]]
     ELSE IF ~IsValidUrl(url)
       THEN [enabled |-> FALSE, reason |-> [text |-> "Invalid PYROSCOPE_URL: ", url |-> url]]
     ELSE [enabled |-> TRUE, reason |-> [text |-> "Configured: ", url |-> url]]

\* SERVICE_NAME of services/backend/index.js
N_SERVICE_NAME == <<"O","T","E","L","_","S","E","R","V","I","C","E","_","N","A","M","E">>

S_backend == <<"b","a","c","k","e","n","d">>

SERVICE_NAME(e) == OrDefault(Getenv(e, N_SERVICE_NAME), S_backend)

\* the resource handed to NodeTracerProvider by initTracing
TraceResource(serviceName, e) ==
  Spread([k \in {S_service_name} |-> serviceName],
         parseResourceAttributes(Getenv(e, N_RESOURCE_ATTRIBUTES)).map)

\* exporterConfig of initTracing, initMetrics and initLogging
ExporterConfig(headers) ==
  IF headers.type = "object" /\ DOMAIN headers.map # {}
    THEN [headers |-> headers] ELSE [headers |-> Undefined]

\* process.env.DEBUG?.includes(word)
DebugIncludes(e, word) ==
  LET d == Getenv(e, N_DEBUG) IN d.set /\ Includes(d.val, word)

(***************************************************************************)
(* State.                                                                  *)
(***************************************************************************)
VARIABLES
  input,        \* SpecParse: the raw string handed to the three parsers
  parsed,       \* SpecParse: their results
  env,          \* the live environment the processes are started in
  envFile,      \* the .env file: whether it exists, and its content
  venv,         \* process.env of the validator process
  vpc,          \* position of the validator process
  otlpResult,   \* otlpResult of main
  pyroscopeResult, \* pyroscopeResult of main
  otlpReply,    \* what the tracing probe's fetch settled to
  pyroReply,    \* what the profiling probe's fetch settled to
  requests,     \* the probe requests sent so far, in order
  vout,         \* console lines of the validator, in order
  exitCode,     \* argument of the call of process.exit, NoExit while running
  spc,          \* position of a service process in its startup
  tracerProvider, \* the globally registered tracer provider
  meterProvider,  \* the globally registered meter provider
  loggerProvider, \* the globally registered logger provider
  tracingResult,  \* what initTracing returned
  initCalls,    \* which of initMetrics and initLogging initTracing has called
  pyroscope,    \* the Pyroscope agent: calls made to init and start
  pyroscopeInit, \* what initPyroscope returned
  sout,         \* console lines of the service process, in order
  rawEndpoint,  \* SpecNormalize: the endpoint string handed to the normalization
  tracesUrls,   \* SpecNormalize: the results of normalizing it once, twice, ...
  logCalls,     \* SpecLogger: the calls of info, warn and error made so far, in order
  logRecords,   \* SpecLogger: the records the logs pipeline accepted, in order
  logConsole,   \* SpecLogger: the console lines of the logger, in order
  items,        \* SpecItems: the items array of the backend
  responses     \* SpecItems: the requests answered so far with their responses, in order

vars == <<input, parsed, env, envFile, venv, vpc, otlpResult, pyroscopeResult,
          otlpReply, pyroReply, requests, vout, exitCode, spc, tracerProvider,
          meterProvider, loggerProvider, tracingResult, initCalls, pyroscope,
          pyroscopeInit, sout, rawEndpoint, tracesUrls, logCalls, logRecords, logConsole,
          items, responses>>

normalizeVars == <<rawEndpoint, tracesUrls>>

loggerVars == <<logCalls, logRecords, logConsole>>

itemVars == <<items, responses>>

\* the variables of the specifications of single functions and of the running service
restVars == <<normalizeVars, loggerVars, itemVars>>

\* nothing is being normalized, no logger call and no request has been made
RestIdle ==
  /\ rawEndpoint = <<>>
  /\ tracesUrls = <<>>
  /\ logCalls = <<>>
  /\ logRecords = <<>>
  /\ logConsole = <<>>
  /\ items = <<>>
  /\ responses = <<>>

serviceVars == <<spc, tracerProvider, meterProvider, loggerProvider, tracingResult, initCalls,
                 pyroscope, pyroscopeInit, sout>>

parseVars == <<input, parsed>>

validatorVars == <<venv, vpc, otlpResult, pyroscopeResult, otlpReply, pyroReply,
                   requests, vout, exitCode>>

\* the arguments of the calls of process.exit: none while the process runs
NoExit == <<>>

\* process.exit(code)
Exit(code) == <<code>>

NotParsed == [done |-> FALSE]

(***************************************************************************)
(* Inputs of Spec: environments and .env files.                            *)
(***************************************************************************)
E_Local == <<"h","t","t","p",":","/","/","c",":","4","3","1","8">>
E_CloudBare == <<"t",".","g","r","a","f","a","n","a",".","n","e","t","/">>
E_CloudOtlp == <<"h","t","t","p","s",":","/","/","t",".","g","r","a","f","a","n","a",".","n","e","t","/","o","t","l","p">>
E_PathOnly == <<"h","t","t","p",":","/","/","c","/","g","r","a","f","a","n","a",".","n","e","t">>
H_NoAuth == <<"X","=","1">>
H_Unparsable == <<"A","u","t","h","o","r","i","z","a","t","i","o","n">>
H_Basic == <<"A","u","t","h","o","r","i","z","a","t","i","o","n","=","B","a","s","i","c"," ","d","Q","=","=">>
P_Local == <<"h","t","t","p",":","/","/","c",":","4","0","4","0">>
P_Cloud == <<"h","t","t","p","s",":","/","/","p",".","g","r","a","f","a","n","a",".","n","e","t","/">>
P_CloudBare == <<"p",".","g","r","a","f","a","n","a",".","n","e","t">>

EndpointValues == {Unset, Str(<<>>), Str(E_Local), Str(E_CloudBare), Str(E_CloudOtlp), Str(E_PathOnly)}

HeaderValues == {Unset, Str(<<>>), Str(H_NoAuth), Str(H_Unparsable), Str(H_Basic)}

PyroscopeUrlValues == {Unset, Str(P_Local), Str(P_Cloud), Str(P_CloudBare)}

UserValues == {Unset, Str(<<"u">>)}

PasswordValues == {Unset, Str(<<"p">>)}

\* process.env with the given variables, those that are Unset left out
MkEnv(assign) ==
  [n \in {m \in DOMAIN assign : assign[m].set} |-> assign[n].val]

\* one line KEY=VALUE of a .env file
EnvLine(key, value) == key \o <<"=">> \o value

NL == <<"\n">>

\* a file that sets the headers (quoted), comments, and names the endpoint twice
FileCloud ==
  <<"#"," ","c">> \o NL
  \o EnvLine(N_OTLP_HEADERS, <<"\"">> \o H_Basic \o <<"\"">>) \o NL
  \o EnvLine(N_OTLP_ENDPOINT, E_CloudOtlp) \o NL
  \o EnvLine(N_OTLP_ENDPOINT, E_Local) \o NL

\* a file for a local setup, with spaces around the key and the value
FileLocal ==
  EnvLine(<<" ">> \o N_OTLP_ENDPOINT \o <<" ">>, <<" ">> \o E_Local) \o NL
  \o EnvLine(N_PYROSCOPE_URL, P_Local)

EnvFiles ==
  { [exists |-> FALSE, content |-> <<>>],
    [exists |-> TRUE, content |-> FileCloud],
    [exists |-> TRUE, content |-> FileLocal] }

\* statuses a probed backend answers with
Statuses == {200, 302, 400, 401, 403, 500}

Replies == {StatusReply(s) : s \in Statuses} \cup {NetworkError}

\* what fetch(url) can settle to: it rejects at once when url does not parse
FetchReplies(url) == IF IsValidUrl(url) THEN Replies ELSE {NetworkError}

(***************************************************************************)
(* Startup of a service process: initTracing, then initPyroscope.          *)
(***************************************************************************)
NoProvider == [registered |-> FALSE]

ServiceInit ==
  /\ spc = "start"
  /\ tracerProvider = NoProvider
  /\ meterProvider = NoProvider
  /\ loggerProvider = NoProvider
  /\ tracingResult = [done |-> FALSE]
  /\ initCalls = {}
  /\ pyroscope = [initCalled |-> FALSE, startCalled |-> FALSE, running |-> FALSE]
  /\ pyroscopeInit = [done |-> FALSE]
  /\ sout = <<>>

(***************************************************************************)
(* Spec: one run of the validator and one startup of a service.                                         *)
(***************************************************************************)
Init ==
  /\ input = <<>>
  /\ parsed = NotParsed
  /\ \E ep \in EndpointValues, hd \in HeaderValues, pu \in PyroscopeUrlValues,
        us \in UserValues, pw \in PasswordValues :
       env = MkEnv([n \in {N_OTLP_ENDPOINT, N_OTLP_HEADERS, N_PYROSCOPE_URL,
                           N_PYROSCOPE_USER, N_PYROSCOPE_PASSWORD} |->
                     IF n = N_OTLP_ENDPOINT THEN ep
                     ELSE IF n = N_OTLP_HEADERS THEN hd
                     ELSE IF n = N_PYROSCOPE_URL THEN pu
                     ELSE IF n = N_PYROSCOPE_USER THEN us
                     ELSE pw])
  /\ envFile \in EnvFiles
  /\ venv = env
  /\ vpc = "load"
  /\ otlpResult = NoOutcome
  /\ pyroscopeResult = NoOutcome
  /\ otlpReply = NoReply
  /\ pyroReply = NoReply
  /\ requests = <<>>
  /\ vout = <<>>
  /\ exitCode = NoExit
  /\ ServiceInit
  /\ RestIdle

\* top level of validate-env.js: merge .env into process.env
LoadEnv ==
  /\ vpc = "load"
  /\ venv' = LoadEnvFile(venv, envFile)
  /\ vpc' = "main"
  /\ UNCHANGED <<parseVars, restVars, serviceVars, env, envFile, otlpResult, pyroscopeResult, otlpReply,
                 pyroReply, requests, vout, exitCode>>

\* main calls validateOtlp, which returns at once or sends the probe
ValidateOtlp ==
  /\ vpc = "main"
  /\ LET endpoint == Getenv(venv, N_OTLP_ENDPOINT)
         headers == Getenv(venv, N_OTLP_HEADERS)
     IN IF ~IsGrafanaCloud(endpoint)
          THEN /\ otlpResult' = Outcome(TRUE, TRUE)
               /\ vout' = Append(vout, "Skipping OTLP validation (not configured for Grafana Cloud)")
               /\ vpc' = "otlpDone"
               /\ UNCHANGED requests
        ELSE IF Falsy(headers) \/ ~Includes(headers.val, S_Authorization)
          THEN /\ otlpResult' = Outcome(FALSE, FALSE)
               /\ vout' = Append(vout, "OTLP validation failed: OTEL_EXPORTER_OTLP_HEADERS required for Grafana Cloud")
               /\ vpc' = "otlpDone"
               /\ UNCHANGED requests
        ELSE LET authHeaders == parseHeaders(headers.val)
             IN IF S_Authorization \notin DOMAIN authHeaders.map
                  THEN /\ otlpResult' = Outcome(FALSE, FALSE)
                       /\ vout' = Append(vout, "OTLP validation failed: Could not parse Authorization header")
                       /\ vpc' = "otlpDone"
                       /\ UNCHANGED requests
                  ELSE /\ requests' = Append(requests,
                            [backend |-> "otlp",
                             url |-> TracesUrl(endpoint.val),
                             headers |-> MapSet(authHeaders.map, S_ContentType, S_application_json)])
                       /\ vpc' = "otlpFetch"
                       /\ UNCHANGED <<otlpResult, vout>>
  /\ UNCHANGED <<parseVars, restVars, serviceVars, env, envFile, venv, pyroscopeResult, otlpReply, pyroReply, exitCode>>

\* the tracing probe's fetch settles and validateOtlp returns
OtlpResponse ==
  /\ vpc = "otlpFetch"
  /\ \E reply \in FetchReplies(requests[Len(requests)].url) :
       /\ otlpReply' = reply
       /\ otlpResult' = OtlpOutcome(reply)
       /\ vout' = vout \o OtlpMessage(reply)
  /\ vpc' = "otlpDone"
  /\ UNCHANGED <<parseVars, restVars, serviceVars, env, envFile, venv, pyroscopeResult, pyroReply, requests, exitCode>>

\* main after await validateOtlp()
MainAfterOtlp ==
  /\ vpc = "otlpDone"
  /\ IF Failed(otlpResult)
       THEN /\ vout' = Append(vout, "Validation failed. Fix .env and try again.")
            /\ exitCode' = Exit(1)
            /\ vpc' = "exited"
       ELSE /\ vout' = IF ~otlpResult.skip
                         THEN Append(vout, "OTLP (traces/metrics/logs): connection successful")
                         ELSE vout
            /\ vpc' = "pyro"
            /\ UNCHANGED exitCode
  /\ UNCHANGED <<parseVars, restVars, serviceVars, env, envFile, venv, otlpResult, pyroscopeResult, otlpReply,
                 pyroReply, requests>>

\* main calls validatePyroscope, which returns at once or sends the probe
ValidatePyroscope ==
  /\ vpc = "pyro"
  /\ LET pyroscopeUrl == Getenv(venv, N_PYROSCOPE_URL)
         user == Getenv(venv, N_PYROSCOPE_USER)
         pass == Getenv(venv, N_PYROSCOPE_PASSWORD)
     IN IF ~IsGrafanaCloud(pyroscopeUrl)
          THEN /\ pyroscopeResult' = Outcome(TRUE, TRUE)
               /\ vout' = Append(vout, "Skipping Pyroscope validation (not configured for Grafana Cloud)")
               /\ vpc' = "pyroDone"
               /\ UNCHANGED requests
        ELSE IF Falsy(user) \/ Falsy(pass)
          THEN /\ pyroscopeResult' = Outcome(FALSE, FALSE)
               /\ vout' = Append(vout, "Pyroscope validation failed: PYROSCOPE_BASIC_AUTH_USER and _PASSWORD required")
               /\ vpc' = "pyroDone"
               /\ UNCHANGED requests
        ELSE /\ requests' = Append(requests,
                  [backend |-> "pyroscope",
                   url |-> IngestUrl(pyroscopeUrl.val),
                   headers |-> [basicAuthUser |-> user.val, basicAuthPassword |-> pass.val]])
             /\ vpc' = "pyroFetch"
             /\ UNCHANGED <<pyroscopeResult, vout>>
  /\ UNCHANGED <<parseVars, restVars, serviceVars, env, envFile, venv, otlpResult, otlpReply, pyroReply, exitCode>>

\* the profiling probe's fetch settles and validatePyroscope returns
PyroResponse ==
  /\ vpc = "pyroFetch"
  /\ \E reply \in FetchReplies(requests[Len(requests)].url) :
       /\ pyroReply' = reply
       /\ pyroscopeResult' = PyroOutcome(reply)
       /\ vout' = vout \o PyroMessage(reply)
  /\ vpc' = "pyroDone"
  /\ UNCHANGED <<parseVars, restVars, serviceVars, env, envFile, venv, otlpResult, otlpReply, requests, exitCode>>

\* main after await validatePyroscope()
MainAfterPyro ==
  /\ vpc = "pyroDone"
  /\ IF Failed(pyroscopeResult)
       THEN /\ vout' = Append(vout, "Validation failed. Fix .env and try again.")
            /\ exitCode' = Exit(1)
       ELSE /\ vout' = (IF ~pyroscopeResult.skip
                          THEN Append(vout, "Pyroscope: credentials accepted")
                          ELSE vout)
                       \o <<"All validations passed. Your .env is working.">>
            /\ exitCode' = Exit(0)
  /\ vpc' = "exited"
  /\ UNCHANGED <<parseVars, restVars, serviceVars, env, envFile, venv, otlpResult, pyroscopeResult, otlpReply,
                 pyroReply, requests>>

\* initMetrics(serviceName, endpoint, headers): the provider it leaves
\* registered, given whether a constructor in its try block throws
initMetrics(serviceName, headers, throws) ==
  IF throws THEN NoProvider
  ELSE [registered |-> TRUE,
        resource |-> [k \in {S_service_name} |-> serviceName],
        exporterConfig |-> ExporterConfig(headers),
        exportIntervalMillis |-> 60000]

\* initLogging(serviceName, endpoint, headers), likewise
initLogging(serviceName, headers, throws) ==
  IF throws THEN NoProvider
  ELSE [registered |-> TRUE,
        resource |-> [k \in {S_service_name} |-> serviceName],
        exporterConfig |-> ExporterConfig(headers)]

\* OTEL_METRICS_ENABLED test that takes an unset flag for a disabled one
MetricsEnabled_Truthy(e) == ~Falsy(Getenv(e, N_METRICS_ENABLED)) /\ Getenv(e, N_METRICS_ENABLED) # Str(S_false)

\* process.env.OTEL_METRICS_ENABLED !== 'false'
MetricsEnabled(e) == Getenv(e, N_METRICS_ENABLED) # Str(S_false)

\* process.env.OTEL_LOGS_ENABLED !== 'false'
LogsEnabled(e) == Getenv(e, N_LOGS_ENABLED) # Str(S_false)

\* await initTracing(SERVICE_NAME)
InitTracing ==
  /\ spc = "start"
  /\ \E metricsThrows \in BOOLEAN, logsThrows \in BOOLEAN :
       LET serviceName == SERVICE_NAME(env)
           headers == parseOtlpHeaders(Getenv(env, N_OTLP_HEADERS))
           metricsOn == MetricsEnabled(env)
           logsOn == LogsEnabled(env)
           debug == DebugIncludes(env, S_otel)
       IN /\ tracerProvider' =
               [registered |-> TRUE,
                resource |-> TraceResource(serviceName, env),
                exporterConfig |-> ExporterConfig(headers),
                spanProcessor |-> IF Getenv(env, N_SPAN_PROCESSOR) = Str(S_simple)
                                    THEN "simple" ELSE "batch"]
          /\ meterProvider' = IF metricsOn THEN initMetrics(serviceName, headers, metricsThrows)
                              ELSE meterProvider
          /\ loggerProvider' = IF logsOn THEN initLogging(serviceName, headers, logsThrows)
                               ELSE loggerProvider
          /\ sout' = sout
               \o (IF metricsOn /\ metricsThrows /\ debug
                     THEN <<[level |-> "debug", text |-> "[instrumentation] Metrics init skipped:"]>>
                     ELSE <<>>)
               \o (IF logsOn /\ logsThrows /\ debug
                     THEN <<[level |-> "debug", text |-> "[instrumentation] Logs init skipped:"]>>
                     ELSE <<>>)
          /\ initCalls' = (IF metricsOn THEN {"initMetrics"} ELSE {})
                             \cup (IF logsOn THEN {"initLogging"} ELSE {})
          /\ tracingResult' = [done |-> TRUE, tracer |-> serviceName]
  /\ spc' = "tracing"
  /\ UNCHANGED <<parseVars, restVars, env, envFile, validatorVars, pyroscope, pyroscopeInit>>

\* await initPyroscope(SERVICE_NAME, {}, { sourceMapperRootDirs: [dir] })
InitPyroscope ==
  /\ spc = "tracing"
  /\ LET decision == isPyroscopeEnabled(env)
         debug == DebugIncludes(env, S_pyroscope)
         user == Getenv(env, N_PYROSCOPE_USER)
         pass == Getenv(env, N_PYROSCOPE_PASSWORD)
     IN IF ~decision.enabled
          THEN /\ pyroscopeInit' = [done |-> TRUE, enabled |-> FALSE, reason |-> decision.reason]
               /\ sout' = IF debug
                            THEN Append(sout, [level |-> "debug", text |-> "[instrumentation] Pyroscope not initialized - "])
                            ELSE sout
               /\ UNCHANGED pyroscope
          ELSE \E mapper \in {"absent", "created", "failed"}, thrown \in {"none", "init", "start"} :
                 LET config == [serverAddress |-> OrDefault(Getenv(env, N_PYROSCOPE_URL), DEFAULT_PYROSCOPE_URL),
                                appName |-> SERVICE_NAME(env),
                                basicAuthUser |-> IF ~Falsy(user) /\ ~Falsy(pass) THEN user ELSE Unset,
                                basicAuthPassword |-> IF ~Falsy(user) /\ ~Falsy(pass) THEN pass ELSE Unset,
                                sourceMapper |-> mapper = "created"]
                     warned == IF mapper = "failed"
                                 THEN <<[level |-> "warn", text |-> "[instrumentation] SourceMapper create failed:"]>>
                                 ELSE <<>>
                 IN /\ pyroscope' = [initCalled |-> TRUE,
                                     startCalled |-> thrown # "init",
                                     running |-> thrown = "none",
                                     config |-> config]
                    /\ IF thrown = "none"
                         THEN /\ pyroscopeInit' = [done |-> TRUE, enabled |-> TRUE]
                              /\ sout' = sout \o warned
                                   \o (IF debug
                                         THEN <<[level |-> "debug", text |-> "[instrumentation] Pyroscope started for "]>>
                                         ELSE <<>>)
                         ELSE /\ pyroscopeInit' = [done |-> TRUE, enabled |-> FALSE,
                                                   reason |-> [text |-> "error.message", url |-> <<>>]]
                              /\ sout' = sout \o warned
                                   \o <<[level |-> "error", text |-> "[instrumentation] Failed to initialize Pyroscope:"]>>
  /\ spc' = "ready"
  /\ UNCHANGED <<parseVars, restVars, env, envFile, validatorVars, tracerProvider, meterProvider,
                 loggerProvider, tracingResult, initCalls>>

ServiceNext ==
  \/ InitTracing
  \/ InitPyroscope

ValidatorNext ==
  \/ LoadEnv
  \/ ValidateOtlp
  \/ OtlpResponse
  \/ MainAfterOtlp
  \/ ValidatePyroscope
  \/ PyroResponse
  \/ MainAfterPyro

Next == ValidatorNext \/ ServiceNext

Spec == Init /\ [][Next]_vars

(***************************************************************************)
(* SpecInit: startup of a service over the variables instrumentation.js    *)
(* reads.                                                                  *)
(***************************************************************************)
A_Other == <<"s","e","r","v","i","c","e",".","n","a","m","e","=","o","t","h","e","r">>
A_Plain == <<"k","=","v",","," ","z","o","n","e","=","a","=","b">>
D_All == <<"o","t","e","l",",","p","y","r","o","s","c","o","p","e">>

ServicePyroscopeUrlValues ==
  {Unset, Str(<<>>), Str(S_false), Str(S_disabled), Str(P_Local), Str(P_CloudBare)}

ResourceAttributeValues == {Unset, Str(A_Other), Str(A_Plain)}

FlagValues == {Unset, Str(S_false)}

InitService ==
  /\ input = <<>>
  /\ parsed = NotParsed
  /\ \E ep \in {Unset, Str(E_CloudOtlp)}, hd \in {Unset, Str(H_Basic)},
        pu \in ServicePyroscopeUrlValues, us \in UserValues, pw \in PasswordValues,
        ra \in ResourceAttributeValues, sp \in {Unset, Str(S_simple)},
        me \in FlagValues, lo \in FlagValues, db \in {Unset, Str(D_All)} :
       env = MkEnv([n \in {N_OTLP_ENDPOINT, N_OTLP_HEADERS, N_PYROSCOPE_URL,
                           N_PYROSCOPE_USER, N_PYROSCOPE_PASSWORD, N_RESOURCE_ATTRIBUTES,
                           N_SPAN_PROCESSOR, N_METRICS_ENABLED, N_LOGS_ENABLED, N_DEBUG} |->
                     IF n = N_OTLP_ENDPOINT THEN ep
                     ELSE IF n = N_OTLP_HEADERS THEN hd
                     ELSE IF n = N_PYROSCOPE_URL THEN pu
                     ELSE IF n = N_PYROSCOPE_USER THEN us
                     ELSE IF n = N_PYROSCOPE_PASSWORD THEN pw
                     ELSE IF n = N_RESOURCE_ATTRIBUTES THEN ra
                     ELSE IF n = N_SPAN_PROCESSOR THEN sp
                     ELSE IF n = N_METRICS_ENABLED THEN me
                     ELSE IF n = N_LOGS_ENABLED THEN lo
                     ELSE db])
  /\ envFile = [exists |-> FALSE, content |-> <<>>]
  /\ venv = env
  /\ vpc = "load"
  /\ otlpResult = NoOutcome
  /\ pyroscopeResult = NoOutcome
  /\ otlpReply = NoReply
  /\ pyroReply = NoReply
  /\ requests = <<>>
  /\ vout = <<>>
  /\ exitCode = NoExit
  /\ ServiceInit
  /\ RestIdle

SpecInit == InitService /\ [][ServiceNext]_vars

(***************************************************************************)
(* SpecParse: the parsers as pure functions over every short raw string.   *)
(***************************************************************************)
\* characters the raw strings are made of
Alphabet == {"k", "a", "=", ",", " "}

RECURSIVE StringsUpTo(_)
StringsUpTo(n) ==
  IF n = 0 THEN {<<>>}
  ELSE LET shorter == StringsUpTo(n - 1)
       IN shorter \cup {Append(s, c) : s \in {t \in shorter : Len(t) = n - 1}, c \in Alphabet}

\* segments the longer raw strings are joined from: well-formed ones, with
\* repeated keys and surrounding spaces, and malformed ones
SegmentChoices ==
  {<<"k","=","a">>,
   <<"k","=","k">>,
   <<"a","=","k">>,
   <<" ","k"," ","="," ","a"," ">>,
   <<"k">>,
   <<>>,
   <<"=","a">>,
   <<"k","=">>,
   <<"k","=","a","=","k">>}

\* segs.join(sep)
RECURSIVE Join(_, _)
Join(segs, sep) ==
  IF segs = <<>> THEN <<>>
  ELSE IF Len(segs) = 1 THEN segs[1]
  ELSE segs[1] \o sep \o Join(Tail(segs), sep)

RECURSIVE SegmentLists(_)
SegmentLists(n) ==
  IF n = 0 THEN {<<>>}
  ELSE LET shorter == SegmentLists(n - 1)
       IN shorter \cup {Append(l, seg) : l \in {m \in shorter : Len(m) = n - 1}, seg \in SegmentChoices}

\* the two documented example header strings
X_LastWins == <<"A","=","1",",","B","=","2",",","A","=","3">>

X_Malformed == <<"A","=","1",",",",","B","=","2",",","=","x">>

ParseInputs ==
  StringsUpTo(MaxLen)
  \cup {Join(l, <<",">>) : l \in SegmentLists(MaxSegments)}
  \cup {X_LastWins, X_Malformed}

InitParse ==
  /\ input \in ParseInputs
  /\ parsed = NotParsed
  /\ env = EmptyMap
  /\ envFile = [exists |-> FALSE, content |-> <<>>]
  /\ venv = env
  /\ vpc = "load"
  /\ otlpResult = NoOutcome
  /\ pyroscopeResult = NoOutcome
  /\ otlpReply = NoReply
  /\ pyroReply = NoReply
  /\ requests = <<>>
  /\ vout = <<>>
  /\ exitCode = NoExit
  /\ ServiceInit
  /\ RestIdle

\* one call of each parser on the same raw string
ParseAll ==
  /\ ~parsed.done
  /\ parsed' = [done |-> TRUE,
                otlp |-> parseOtlpHeaders(Str(input)),
                validator |-> parseHeaders(input),
                attrs |-> parseResourceAttributes(Str(input))]
  /\ UNCHANGED <<input, env, envFile, validatorVars, serviceVars, restVars>>

SpecParse == InitParse /\ [][ParseAll]_vars

(***************************************************************************)
(* SpecNormalize: the endpoint normalization of validateOtlp applied to    *)
(* an endpoint and then to its own result.                                 *)
(***************************************************************************)
\* the pieces the endpoint strings are concatenated from
EndpointPieces == {S_http, S_https_prefix, S_grafana_net, S_v1_traces, <<"/">>, <<"x">>}

RECURSIVE Concatenations(_)
Concatenations(n) ==
  IF n = 0 THEN {<<>>}
  ELSE LET shorter == Concatenations(n - 1)
       IN shorter \cup {s \o piece : s \in shorter, piece \in EndpointPieces}

\* validateOtlp normalizes only an endpoint that passed its cloud test
NormalizeInputs == {e \in Concatenations(MaxPieces) : IsGrafanaCloud(Str(e))}

InitNormalize ==
  /\ input = <<>>
  /\ parsed = NotParsed
  /\ env = EmptyMap
  /\ envFile = [exists |-> FALSE, content |-> <<>>]
  /\ venv = env
  /\ vpc = "load"
  /\ otlpResult = NoOutcome
  /\ pyroscopeResult = NoOutcome
  /\ otlpReply = NoReply
  /\ pyroReply = NoReply
  /\ requests = <<>>
  /\ vout = <<>>
  /\ exitCode = NoExit
  /\ ServiceInit
  /\ rawEndpoint \in NormalizeInputs
  /\ tracesUrls = <<>>
  /\ logCalls = <<>>
  /\ logRecords = <<>>
  /\ logConsole = <<>>
  /\ items = <<>>
  /\ responses = <<>>

\* baseUrl, normalized, tracesUrl of validateOtlp: on the endpoint first,
\* then on the URL the previous application produced
Normalize ==
  /\ Len(tracesUrls) < MaxNormalizations
  /\ tracesUrls' = Append(tracesUrls,
                          TracesUrl(IF tracesUrls = <<>> THEN rawEndpoint
                                    ELSE tracesUrls[Len(tracesUrls)]))
  /\ UNCHANGED <<parseVars, env, envFile, validatorVars, serviceVars, rawEndpoint, loggerVars, itemVars>>

SpecNormalize == InitNormalize /\ [][Normalize]_vars

(***************************************************************************)
(* SpecLive: runs of the validator under the scheduling of Node.js. The    *)
(* event loop runs every continuation of the validator that is ready, and  *)
(* fetch rejects on its own when the URL does not parse. When the request  *)
(* was sent, fetch settles only when the server answers or the connection  *)
(* fails: the calls of fetch carry no signal and the validator sets no     *)
(* timer, so nothing in the program makes a pending fetch settle.          *)
(***************************************************************************)
InitLive ==
  /\ input = <<>>
  /\ parsed = NotParsed
  /\ \E ep \in {Unset, Str(E_CloudBare), Str(E_CloudOtlp),
                  \* no host: new URL throws and fetch rejects at once
                  Str(<<"h","t","t","p",":","/","/","?","g","r","a","f","a","n","a",".","n","e","t">>)},
        hd \in {Unset, Str(H_Basic)},
        pu \in {Unset, Str(P_Cloud), Str(P_CloudBare)}, us \in UserValues, pw \in PasswordValues :
       env = MkEnv([n \in {N_OTLP_ENDPOINT, N_OTLP_HEADERS, N_PYROSCOPE_URL,
                           N_PYROSCOPE_USER, N_PYROSCOPE_PASSWORD} |->
                     IF n = N_OTLP_ENDPOINT THEN ep
                     ELSE IF n = N_OTLP_HEADERS THEN hd
                     ELSE IF n = N_PYROSCOPE_URL THEN pu
                     ELSE IF n = N_PYROSCOPE_USER THEN us
                     ELSE pw])
  /\ envFile = [exists |-> FALSE, content |-> <<>>]
  /\ venv = env
  /\ vpc = "load"
  /\ otlpResult = NoOutcome
  /\ pyroscopeResult = NoOutcome
  /\ otlpReply = NoReply
  /\ pyroReply = NoReply
  /\ requests = <<>>
  /\ vout = <<>>
  /\ exitCode = NoExit
  /\ ServiceInit
  /\ RestIdle

\* fair for the continuations of the validator and for a fetch that rejects
\* because its URL does not parse
SpecLive ==
  /\ InitLive
  /\ [][ValidatorNext]_vars
  /\ WF_vars(LoadEnv)
  /\ WF_vars(ValidateOtlp)
  /\ WF_vars(vpc = "otlpFetch" /\ ~IsValidUrl(requests[Len(requests)].url) /\ OtlpResponse)
  /\ WF_vars(MainAfterOtlp)
  /\ WF_vars(ValidatePyroscope)
  /\ WF_vars(vpc = "pyroFetch" /\ ~IsValidUrl(requests[Len(requests)].url) /\ PyroResponse)
  /\ WF_vars(MainAfterPyro)

(***************************************************************************)
(* SpecLogger: the logger of getLogger(serviceName), called by a service.  *)
(***************************************************************************)
\* SeverityNumber of @opentelemetry/api-logs, the three members used
SeverityNumber == [INFO |-> 9, WARN |-> 13, ERROR |-> 17]

\* the severity texts 'INFO', 'WARN', 'ERROR' as they are printed
SeverityText ==
  [INFO |-> <<"I","N","F","O">>, WARN |-> <<"W","A","R","N">>, ERROR |-> <<"E","R","R","O","R">>]

\* the values of msg: strings, an object that JSON.stringify serializes, and
\* an object JSON.stringify throws a TypeError on (a circular structure, a BigInt)
LogMessages ==
  {[kind |-> "string", text |-> <<"I","t","e","m"," ","c","r","e","a","t","e","d">>],
   [kind |-> "string", text |-> <<>>],
   [kind |-> "object", text |-> <<"{","}">>],
   [kind |-> "circular", text |-> <<>>]}

\* typeof msg === 'string' ? msg : JSON.stringify(msg)
BodyThrows(msg) == msg.kind = "circular"

BodyOf(msg) == msg.text

\* `[${serviceName}] ${severityText}:`
Prefix(serviceName, severityText) == <<"[">> \o serviceName \o <<"]", " ">> \o severityText \o <<":">>

\* the console method chosen by the severity number
ConsoleMethod(severityNumber) ==
  IF severityNumber >= SeverityNumber.ERROR THEN "error"
  ELSE IF severityNumber >= SeverityNumber.WARN THEN "warn"
  ELSE "log"

InitLogger ==
  /\ input = <<>>
  /\ parsed = NotParsed
  /\ \E sn \in {Unset, Str(<<"g","w">>)} : env = MkEnv([n \in {N_SERVICE_NAME} |-> sn])
  /\ envFile = [exists |-> FALSE, content |-> <<>>]
  /\ venv = env
  /\ vpc = "load"
  /\ otlpResult = NoOutcome
  /\ pyroscopeResult = NoOutcome
  /\ otlpReply = NoReply
  /\ pyroReply = NoReply
  /\ requests = <<>>
  /\ vout = <<>>
  /\ exitCode = NoExit
  /\ spc = "ready"
  /\ tracerProvider = NoProvider
  /\ meterProvider = NoProvider
  /\ loggerProvider \in {NoProvider, initLogging(SERVICE_NAME(env), Undefined, FALSE)}
  /\ tracingResult = [done |-> FALSE]
  /\ initCalls = {}
  /\ pyroscope = [initCalled |-> FALSE, startCalled |-> FALSE, running |-> FALSE]
  /\ pyroscopeInit = [done |-> FALSE]
  /\ sout = <<>>
  /\ RestIdle

\* emit(severityNumber, severityText, msg, attrs) of getLogger. The record
\* reaches the pipeline only when a logger provider is registered and
\* logger.emit does not throw.
emit(severityText, msg, attrs, emitThrows) ==
  LET serviceName == SERVICE_NAME(env)
      severityNumber == SeverityNumber[severityText]
      text == SeverityText[severityText]
      call == [severityText |-> severityText, msg |-> msg]
  IN /\ Len(logCalls) < MaxCalls
     /\ IF BodyThrows(msg)
          THEN /\ logCalls' = Append(logCalls, call @@ [returned |-> FALSE])
               /\ UNCHANGED <<logRecords, logConsole>>
          ELSE /\ logCalls' = Append(logCalls, call @@ [returned |-> TRUE])
               /\ logRecords' =
                    IF loggerProvider.registered /\ ~emitThrows
                      THEN Append(logRecords,
                                  [severityNumber |-> severityNumber,
                                   severityText |-> severityText,
                                   body |-> BodyOf(msg),
                                   attributes |-> Spread([k \in {S_service_name} |-> serviceName], attrs)])
                      ELSE logRecords
               /\ logConsole' = Append(logConsole,
                                       [method |-> ConsoleMethod(severityNumber),
                                        line |-> Prefix(serviceName, text) \o <<" ">> \o BodyOf(msg)])
     /\ UNCHANGED <<parseVars, env, envFile, validatorVars, serviceVars, normalizeVars, itemVars>>

\* the attribute objects handed to the logger
LogAttrs == {EmptyMap, [k \in {<<"i","d">>} |-> <<"1">>]}

\* log.info(msg, attrs)
info == \E msg \in LogMessages, attrs \in LogAttrs, emitThrows \in BOOLEAN : emit("INFO", msg, attrs, emitThrows)

\* log.warn(msg, attrs)
warn == \E msg \in LogMessages, attrs \in LogAttrs, emitThrows \in BOOLEAN : emit("WARN", msg, attrs, emitThrows)

\* log.error(msg, attrs)
error == \E msg \in LogMessages, attrs \in LogAttrs, emitThrows \in BOOLEAN : emit("ERROR", msg, attrs, emitThrows)

NextLogger == info \/ warn \/ error

SpecLogger == InitLogger /\ [][NextLogger]_vars

(***************************************************************************)
(* SpecItems: the item service (services/backend) and the gateway in front *)
(* of it (services/api-gateway), answering a sequence of requests.         *)
(***************************************************************************)
\* req.body?.name: undefined for a body without name, else the JSON value
NoName == [type |-> "undefined", val |-> <<>>]
NameString(str) == [type |-> "string", val |-> str]
NameNumber == [type |-> "number", val |-> <<"7">>]

RequestNames ==
  {NoName, NameString(<<>>), NameString(<<"w","i","d","g","e","t">>),
   NameString(<<"g","a","d","g","e","t">>), NameNumber}

\* !name || typeof name !== 'string'
NameRejected(name) == name.type # "string" \/ name.val = <<>>

\* the answer of a handler: status code and JSON body
Response(status, kind, value) == [status |-> status, data |-> [kind |-> kind, value |-> value]]

\* item creation that puts the new item in front of the array
CreateItem_Unshift(list, name) == <<[id |-> Len(list) + 1, name |-> name.val]>> \o list

\* item = { id: items.length + 1, name }; items.push(item)
CreateItem(list, name) == Append(list, [id |-> Len(list) + 1, name |-> name.val])

\* backend app.get('/api/items'): the answer and the console lines
BackendGet ==
  [response |-> Response(200, "items", items),
   items |-> items,
   lines |-> <<[level |-> "info", text |-> "[backend] INFO: Returning items"]>>]

\* backend app.post('/api/items')
BackendPost(name) ==
  IF NameRejected(name)
    THEN [response |-> Response(400, "error", "name is required"),
          items |-> items,
          lines |-> <<[level |-> "warn", text |-> "[backend] WARN: Invalid item creation request"]>>]
    ELSE LET list == CreateItem(items, name)
         IN [response |-> Response(201, "item", list[Len(list)]),
             items |-> list,
             lines |-> <<[level |-> "info", text |-> "[backend] INFO: Item created"]>>]

\* the answer of the gateway when fetch or response.json() throws
BadGateway == Response(502, "error", "err.message")

\* one more request answered
Answered(via, method, name, delivered, response) ==
  responses' = Append(responses, [via |-> via, method |-> method, name |-> name,
                                  delivered |-> delivered] @@ response)

InitItems ==
  /\ input = <<>>
  /\ parsed = NotParsed
  /\ env = EmptyMap
  /\ envFile = [exists |-> FALSE, content |-> <<>>]
  /\ venv = env
  /\ vpc = "load"
  /\ otlpResult = NoOutcome
  /\ pyroscopeResult = NoOutcome
  /\ otlpReply = NoReply
  /\ pyroReply = NoReply
  /\ requests = <<>>
  /\ vout = <<>>
  /\ exitCode = NoExit
  /\ spc = "ready"
  /\ tracerProvider = NoProvider
  /\ meterProvider = NoProvider
  /\ loggerProvider = NoProvider
  /\ tracingResult = [done |-> FALSE]
  /\ initCalls = {}
  /\ pyroscope = [initCalled |-> FALSE, startCalled |-> FALSE, running |-> FALSE]
  /\ pyroscopeInit = [done |-> FALSE]
  /\ sout = <<>>
  /\ RestIdle

ItemsFrame ==
  UNCHANGED <<parseVars, env, envFile, validatorVars, spc, tracerProvider, meterProvider,
              loggerProvider, tracingResult, initCalls, pyroscope, pyroscopeInit,
              normalizeVars, loggerVars>>

\* GET /api/items sent to the backend
GetItems ==
  /\ Len(responses) < MaxRequests
  /\ Answered("backend", "GET", NoName, TRUE, BackendGet.response)
  /\ items' = BackendGet.items
  /\ sout' = sout \o BackendGet.lines
  /\ ItemsFrame

\* POST /api/items sent to the backend
PostItems ==
  /\ Len(responses) < MaxRequests
  /\ \E name \in RequestNames :
       /\ Answered("backend", "POST", name, TRUE, BackendPost(name).response)
       /\ items' = BackendPost(name).items
       /\ sout' = sout \o BackendPost(name).lines
  /\ ItemsFrame

\* GET /api/items sent to the gateway: the answer of the backend with
\* status 200, or 502 when the backend cannot be reached
GatewayGetItems ==
  /\ Len(responses) < MaxRequests
  /\ \E reached \in BOOLEAN :
       IF reached
         THEN /\ Answered("gateway", "GET", NoName, TRUE,
                          [BackendGet.response EXCEPT !.status = 200])
              /\ items' = BackendGet.items
              /\ sout' = sout
                   \o <<[level |-> "info", text |-> "[api-gateway] INFO: Fetching items from backend"]>>
                   \o BackendGet.lines
                   \o <<[level |-> "info", text |-> "[api-gateway] INFO: Items fetched successfully"]>>
         ELSE /\ Answered("gateway", "GET", NoName, FALSE, BadGateway)
              /\ UNCHANGED items
              /\ sout' = sout
                   \o <<[level |-> "info", text |-> "[api-gateway] INFO: Fetching items from backend"],
                        [level |-> "error", text |-> "[api-gateway] ERROR: Backend request failed"]>>
  /\ ItemsFrame

\* POST /api/items sent to the gateway: status and body of the backend
\* relayed, or 502 when the backend cannot be reached
GatewayPostItems ==
  /\ Len(responses) < MaxRequests
  /\ \E name \in RequestNames, reached \in BOOLEAN :
       IF reached
         THEN /\ Answered("gateway", "POST", name, TRUE, BackendPost(name).response)
              /\ items' = BackendPost(name).items
              /\ sout' = sout
                   \o <<[level |-> "info", text |-> "[api-gateway] INFO: Creating item"]>>
                   \o BackendPost(name).lines
         ELSE /\ Answered("gateway", "POST", name, FALSE, BadGateway)
              /\ UNCHANGED items
              /\ sout' = sout
                   \o <<[level |-> "info", text |-> "[api-gateway] INFO: Creating item"],
                        [level |-> "error", text |-> "[api-gateway] ERROR: Backend request failed"]>>
  /\ ItemsFrame

NextItems == GetItems \/ PostItems \/ GatewayGetItems \/ GatewayPostItems

SpecItems == InitItems /\ [][NextItems]_vars

(***************************************************************************)
(* Properties.                                                             *)
(***************************************************************************)
\* the key-to-value pairs of a parser's result, none for undefined
PairsOf(r) == IF r.type = "object" THEN r.map ELSE EmptyMap

\* C1: for every raw header string, parseOtlpHeaders (pipeline initializer)
\* and parseHeaders (validator) return the same result, also when no valid
\* pair is parsed.
C1_ParsersAgree == parsed.done => parsed.otlp = parsed.validator

\* C2: the validator exits with code 0 exactly when both the OTLP outcome and
\* the profiling outcome are ok (a skip is ok); every other exit is with code 1,
\* and there is no exit code before the exit.
C2_ExitCode ==
  IF vpc = "exited"
    THEN /\ exitCode \in {Exit(0), Exit(1)}
         /\ exitCode = Exit(0) <=> (/\ otlpResult.done /\ otlpResult.ok
                              /\ pyroscopeResult.done /\ pyroscopeResult.ok)
    ELSE exitCode = NoExit

\* a run that probed the tracing backend successfully, skipped profiling, exited 0
C2_Witness ==
  /\ vpc = "exited" /\ exitCode = Exit(0)
  /\ otlpReply = StatusReply(200) /\ otlpResult.ok /\ ~otlpResult.skip
  /\ pyroscopeResult.skip

\* C3: once the tracing probe's fetch has settled, validateOtlp has returned
\* an outcome: ok=false with the auth message for 401/403, ok=false with
\* another message for any other status >= 400 and for a network error,
\* ok=true for every status below 400.
C3_TracingProbe ==
  otlpReply.kind # "none" =>
    /\ otlpResult.done /\ ~otlpResult.skip
    /\ vpc \in {"otlpDone", "pyro", "pyroFetch", "pyroDone", "exited"}
    /\ otlpReply.kind = "error" => ~otlpResult.ok
    /\ otlpReply.kind = "status" =>
         /\ otlpReply.status \in {401, 403} =>
              /\ ~otlpResult.ok
              /\ \E i \in 1..Len(vout) : vout[i] = "OTLP validation failed: Auth rejected (401/403)"
         /\ (otlpReply.status >= 400 /\ otlpReply.status \notin {401, 403}) =>
              /\ ~otlpResult.ok
              /\ \E i \in 1..Len(vout) : vout[i] = "OTLP validation failed: (status)"
         /\ otlpReply.status < 400 => otlpResult.ok

\* the tracing probe failed at the network level and validateOtlp returned ok=false
C3_Witness ==
  /\ otlpReply = NetworkError
  /\ otlpResult.done /\ ~otlpResult.ok
  /\ vpc = "otlpDone"

\* C4: once the profiling probe's fetch has settled with a response,
\* validatePyroscope returned ok=false for 401/403 and ok=true for every other
\* status; every non-auth status >= 400 fails the tracing probe and passes
\* the profiling probe.
C4_ProfilingProbe ==
  /\ pyroReply.kind = "status" =>
       /\ pyroscopeResult.done /\ ~pyroscopeResult.skip
       /\ pyroscopeResult.ok <=> pyroReply.status \notin {401, 403}
  /\ \A st \in Statuses :
       (st >= 400 /\ st \notin {401, 403}) =>
         /\ ~OtlpOutcome(StatusReply(st)).ok
         /\ PyroOutcome(StatusReply(st)).ok

\* the profiling backend answered 400 and the outcome is ok
C4_Witness ==
  /\ pyroReply = StatusReply(400)
  /\ pyroscopeResult.done /\ pyroscopeResult.ok
  /\ vpc = "pyroDone"

\* the host of an endpoint as the validator would address it: scheme assumed
\* https when absent, then the text up to the first '/', ':', '?' or '#'
HostOf(endpoint) ==
  LET baseUrl == IF StartsWith(endpoint, S_http) THEN endpoint ELSE S_https_prefix \o endpoint
      sep == CHOOSE i \in 1..(Len(baseUrl) - 2) :
               /\ SubSeq(baseUrl, i, i + 2) = <<":", "/", "/">>
               /\ \A j \in 1..(i - 1) : SubSeq(baseUrl, j, j + 2) # <<":", "/", "/">>
      hasScheme == \E i \in 1..(Len(baseUrl) - 2) : SubSeq(baseUrl, i, i + 2) = <<":", "/", "/">>
      rest == IF hasScheme THEN SubSeq(baseUrl, sep + 3, Len(baseUrl)) ELSE baseUrl
      ends == {i \in 1..Len(rest) : rest[i] \in {"/", ":", "?", "#"}}
      stop == IF ends = {} THEN Len(rest) + 1
              ELSE CHOOSE i \in ends : \A j \in ends : i <= j
  IN SubSeq(rest, 1, stop - 1)

\* the endpoint variable is set and its host is in the cloud domain
HostIsCloud(v) == v.set /\ v.val # <<>> /\ Includes(HostOf(v.val), S_grafana_net)

\* the endpoint variable is set and its value contains the cloud domain anywhere
ContainsCloudDomain(v) == v.set /\ v.val # <<>> /\ Includes(v.val, S_grafana_net)

\* requests sent to one backend
RequestsTo(backend) == {i \in 1..Len(requests) : requests[i].backend = backend}

\* the skip rule of both backends for a given reading of "cloud endpoint"
SkipRule(Cloud(_)) ==
  vpc # "load" =>
    /\ ~Cloud(Getenv(venv, N_OTLP_ENDPOINT)) =>
         /\ otlpResult.done => otlpResult = Outcome(TRUE, TRUE)
         /\ vpc # "otlpFetch" /\ RequestsTo("otlp") = {}
         /\ exitCode = Exit(1) => (pyroscopeResult.done /\ ~pyroscopeResult.ok)
    /\ ~Cloud(Getenv(venv, N_PYROSCOPE_URL)) =>
         /\ pyroscopeResult.done => pyroscopeResult = Outcome(TRUE, TRUE)
         /\ vpc # "pyroFetch" /\ RequestsTo("pyroscope") = {}
         /\ exitCode = Exit(1) => ~otlpResult.ok

\* C5 as stated: a backend whose endpoint is unset or whose endpoint's host
\* does not match the cloud domain is skipped (ok, skip), gets no probe
\* request and never causes exit code 1; checks and probe run only for a
\* cloud host.
C5_SkipByHost == SkipRule(HostIsCloud)

\* C5 as amended: a backend whose endpoint variable is unset, empty, or does
\* not contain 'grafana.net' anywhere in its value is skipped (ok, skip),
\* gets no probe request and never causes exit code 1; the auth-field checks
\* and the probe run only when the value contains 'grafana.net'.
C5_SkipBySubstring == SkipRule(ContainsCloudDomain)

\* tracing skipped for a local collector, profiling probed, exit 0
C5_Witness ==
  /\ vpc = "exited" /\ exitCode = Exit(0)
  /\ Getenv(venv, N_OTLP_ENDPOINT) = Str(E_Local)
  /\ otlpResult = Outcome(TRUE, TRUE)
  /\ RequestsTo("otlp") = {} /\ RequestsTo("pyroscope") # {}

\* the tracing endpoint is a cloud endpoint and no Authorization header is
\* obtained from the header string, in process environment e
CloudWithoutAuthorization(e) ==
  /\ ContainsCloudDomain(Getenv(e, N_OTLP_ENDPOINT))
  /\ S_Authorization \notin DOMAIN PairsOf(parseOtlpHeaders(Getenv(e, N_OTLP_HEADERS)))

\* C6: with a cloud tracing endpoint and no Authorization header, the
\* validator fails (ok=false, exit 1) without a probe, and initTracing
\* completes, registers the tracer provider, returns a tracer and logs a
\* warning about the missing cloud auth.
C6_FailVersusWarn ==
  /\ (vpc # "load" /\ CloudWithoutAuthorization(venv)) =>
       /\ otlpResult.done => ~otlpResult.ok
       /\ RequestsTo("otlp") = {}
       /\ vpc = "exited" => exitCode = Exit(1)
  /\ (tracingResult.done /\ CloudWithoutAuthorization(env)) =>
       /\ tracerProvider.registered
       /\ tracingResult.tracer = SERVICE_NAME(env)
       /\ \E i \in 1..Len(sout) : sout[i].level = "warn"

C8_LiveValueKept ==
  vpc # "load" =>
    \A n \in DOMAIN env : n \in DOMAIN venv /\ venv[n] = env[n]

\* C9: the trace resource built by initTracing(serviceName) has service.name
\* equal to serviceName for every value of OTEL_RESOURCE_ATTRIBUTES.
C9_ServiceNameKept ==
  tracingResult.done =>
    /\ tracerProvider.registered
    /\ tracerProvider.resource[S_service_name] = SERVICE_NAME(env)

\* C10: for every input string, parseResourceAttributes produces the same
\* key-to-value pairs as the header parser (a segment split once on its
\* first '=').
C10_AttrsLikeHeaders == parsed.done => PairsOf(parsed.attrs) = PairsOf(parsed.otlp)

\* how often sub occurs in s
Occurrences(s, sub) ==
  Cardinality({i \in 0..(Len(s) - Len(sub)) : SubSeq(s, i + 1, i + Len(sub)) = sub})

\* C11: endpoint normalization is idempotent, normalize(normalize(e)) =
\* normalize(e) for every endpoint e, and /v1/traces is never appended a
\* second time: the result of an endpoint with at most one /v1/traces has
\* at most one.
C11_NormalizeIdempotent ==
  /\ Len(tracesUrls) >= 2 => tracesUrls[2] = tracesUrls[1]
  /\ Occurrences(rawEndpoint, S_v1_traces) <= 1 =>
       \A i \in 1..Len(tracesUrls) : Occurrences(tracesUrls[i], S_v1_traces) <= 1

\* the comma-separated segments of a raw string, and the key and the value
\* of a segment: the text before and after its first '=', trimmed
SegmentsOf(str) == Split(str, ",")

SegKey(seg) == Trim(Slice(seg, 0, IndexOf(seg, "=")))

SegValue(seg) == Trim(SliceFrom(seg, IndexOf(seg, "=") + 1))

\* a segment key=value with a non-empty key and a non-empty value
WellFormedSeg(seg) == IndexOf(seg, "=") # -1 /\ SegKey(seg) # <<>> /\ SegValue(seg) # <<>>

\* m maps exactly the keys of the segments, each to the value of the last
\* segment with that key
LastValueWins(segs, m) ==
  /\ DOMAIN m = {SegKey(segs[i]) : i \in 1..Len(segs)}
  /\ \A i \in 1..Len(segs) :
       (\A j \in (i + 1)..Len(segs) : SegKey(segs[j]) # SegKey(segs[i]))
         => m[SegKey(segs[i])] = SegValue(segs[i])

\* C12: for a header string made only of well-formed key=value pairs, both
\* header parsers return the mapping that holds, for each key, the value of
\* the last pair with that key; "A=1,B=2,A=3" gives {A: "3", B: "2"}.
C12_LastValueWins ==
  (parsed.done /\ \A i \in 1..Len(SegmentsOf(input)) : WellFormedSeg(SegmentsOf(input)[i])) =>
    /\ parsed.otlp.type = "object"
    /\ LastValueWins(SegmentsOf(input), parsed.otlp.map)
    /\ LastValueWins(SegmentsOf(input), parsed.validator.map)
    /\ input = X_LastWins =>
         /\ DOMAIN parsed.otlp.map = {<<"A">>, <<"B">>}
         /\ parsed.otlp.map[<<"A">>] = <<"3">>
         /\ parsed.otlp.map[<<"B">>] = <<"2">>

\* "A=1,B=2,A=3" was parsed and A is mapped to the later value
C12_Witness ==
  /\ parsed.done
  /\ input = X_LastWins
  /\ parsed.validator.map[<<"A">>] = <<"3">>

\* C13: for every header string, the malformed segments (no '=', empty key,
\* empty value) are dropped and the result is the one of the string with the
\* malformed segments removed; "A=1,,B=2,=x" gives {A: "1", B: "2"}.
C13_MalformedDropped ==
  parsed.done =>
    LET kept == Join(SelectSeq(SegmentsOf(input), WellFormedSeg), <<",">>)
    IN /\ PairsOf(parsed.otlp) = PairsOf(parseOtlpHeaders(Str(kept)))
       /\ PairsOf(parsed.validator) = PairsOf(parseHeaders(kept))
       /\ DOMAIN PairsOf(parsed.otlp) =
            {SegKey(seg) : seg \in {SegmentsOf(input)[i] : i \in {j \in 1..Len(SegmentsOf(input)) :
                                                                 WellFormedSeg(SegmentsOf(input)[j])}}}
       /\ DOMAIN PairsOf(parsed.validator) = DOMAIN PairsOf(parsed.otlp)
       /\ input = X_Malformed =>
            /\ DOMAIN parsed.validator.map = {<<"A">>, <<"B">>}
            /\ parsed.validator.map[<<"A">>] = <<"1">>
            /\ parsed.validator.map[<<"B">>] = <<"2">>

\* "A=1,,B=2,=x" was parsed: the empty segment and "=x" left no entry
C13_Witness ==
  /\ parsed.done
  /\ input = X_Malformed
  /\ DOMAIN parsed.otlp.map = {<<"A">>, <<"B">>}

\* C14: once initTracing and initPyroscope have completed, each subsystem
\* has a registered handle exactly when it was decided enabled: tracing
\* always, metrics and logs by their flags, profiling by the decision that
\* initPyroscope reports.
C14_HandleIffEnabled ==
  spc = "ready" =>
    /\ tracerProvider.registered
    /\ meterProvider.registered <=> MetricsEnabled(env)
    /\ loggerProvider.registered <=> LogsEnabled(env)
    /\ pyroscope.running <=> pyroscopeInit.enabled

\* C15: every call of info, warn or error returns without throwing and
\* writes exactly one console line "[serviceName] LEVEL: message", with or
\* without a registered logs pipeline and whether or not emit throws; the
\* console lines are in the order of the calls.
C15_LoggerNeverThrows ==
  /\ \A i \in 1..Len(logCalls) : logCalls[i].returned
  /\ Len(logConsole) = Len(logCalls)
  /\ \A i \in 1..Len(logConsole) :
       logConsole[i].line =
         <<"[">> \o SERVICE_NAME(env) \o <<"]", " ">>
           \o SeverityText[logCalls[i].severityText]
           \o <<":", " ">> \o logCalls[i].msg.text

\* the environment without the two flags OTEL_METRICS_ENABLED and OTEL_LOGS_ENABLED
WithoutFlags(e) == [n \in DOMAIN e \ {N_METRICS_ENABLED, N_LOGS_ENABLED} |-> e[n]]

\* C16: initTracing calls initMetrics (initLogging) exactly when
\* OTEL_METRICS_ENABLED (OTEL_LOGS_ENABLED) is not the string "false"; whatever
\* the two flags are and whether or not these constructions throw, the tracer
\* provider is registered as the environment without the flags determines it,
\* flush mode included, and so are the profiling decision and result.
C16_FlagsOnlySwitchMetricsAndLogs ==
  LET e == WithoutFlags(env)
      decision == isPyroscopeEnabled(e)
  IN /\ spc # "start" =>
          /\ "initMetrics" \in initCalls <=> Getenv(env, N_METRICS_ENABLED) # Str(S_false)
          /\ "initLogging" \in initCalls <=> Getenv(env, N_LOGS_ENABLED) # Str(S_false)
          /\ tracerProvider =
               [registered |-> TRUE,
                resource |-> TraceResource(SERVICE_NAME(e), e),
                exporterConfig |-> ExporterConfig(parseOtlpHeaders(Getenv(e, N_OTLP_HEADERS))),
                spanProcessor |-> IF Getenv(e, N_SPAN_PROCESSOR) = Str(S_simple)
                                    THEN "simple" ELSE "batch"]
     /\ spc = "ready" =>
          /\ ~decision.enabled =>
               /\ pyroscopeInit = [done |-> TRUE, enabled |-> FALSE, reason |-> decision.reason]
               /\ ~pyroscope.initCalled
          /\ decision.enabled =>
               /\ pyroscope.initCalled
               /\ pyroscopeInit.enabled <=> pyroscope.running

\* startup completed with metrics switched off by the flag, logs switched on
\* and their construction thrown, tracing registered and the profiler running
C16_Witness ==
  /\ spc = "ready"
  /\ Getenv(env, N_METRICS_ENABLED) = Str(S_false)
  /\ "initMetrics" \notin initCalls
  /\ "initLogging" \in initCalls
  /\ ~loggerProvider.registered
  /\ tracerProvider.registered
  /\ pyroscopeInit.enabled

\* the creation requests with a non-empty string name among the first n
\* requests that reached the item service
CreationsUpTo(n) ==
  SelectSeq(SubSeq(responses, 1, n),
            LAMBDA r : r.delivered /\ r.method = "POST"
                         /\ r.name.type = "string" /\ r.name.val # <<>>)

\* the items created by the first n requests, in creation order, numbered from 1
CreatedUpTo(n) ==
  [k \in 1..Len(CreationsUpTo(n)) |-> [id |-> k, name |-> CreationsUpTo(n)[k].name.val]]

\* C17: of the requests that reach the item service, a creation with a
\* non-empty string name is answered 201 with the item and its assigned
\* identifier, every later listing returns the items created so far in
\* creation order, that item included, and a creation without such a name is
\* answered 400 and leaves the stored list as it was.
C17_ItemService ==
  /\ items = CreatedUpTo(Len(responses))
  /\ \A i \in 1..Len(responses) :
       LET r == responses[i]
       IN /\ ~r.delivered => r.via = "gateway" /\ r.status = 502
          /\ (r.delivered /\ r.method = "POST") =>
               IF r.name.type = "string" /\ r.name.val # <<>>
                 THEN /\ r.status = 201
                      /\ r.data.kind = "item"
                      /\ r.data.value = [id |-> Len(CreationsUpTo(i)), name |-> r.name.val]
                      /\ \A j \in (i + 1)..Len(responses) :
                           (responses[j].delivered /\ responses[j].method = "GET") =>
                             \E k \in 1..Len(responses[j].data.value) :
                               responses[j].data.value[k] = r.data.value
                 ELSE /\ r.status = 400
                      /\ r.data.kind = "error"
                      /\ CreatedUpTo(i) = CreatedUpTo(i - 1)
          /\ (r.delivered /\ r.method = "GET") =>
               /\ r.status = 200
               /\ r.data.kind = "items"
               /\ r.data.value = CreatedUpTo(i)

\* two items were created, a creation without name was refused in between or
\* not, and a later listing through the gateway returned both in order
C17_Witness ==
  /\ Len(responses) = 3
  /\ responses[1].method = "POST" /\ responses[1].status = 201
  /\ responses[2].method = "POST" /\ responses[2].status = 201
  /\ responses[3].method = "GET" /\ responses[3].via = "gateway" /\ responses[3].delivered
  /\ Len(responses[3].data.value) = 2
  /\ responses[3].data.value[1] = responses[1].data.value
  /\ responses[3].data.value[2] = responses[2].data.value

\* C18: every run of the validator eventually calls process.exit, also
\* when a backend accepts the probe request and never answers it.
C18_Terminates == <>(vpc = "exited")

\* C19: the validator evaluates the profiling backend only after the OTLP
\* outcome is ok (skip included), so every profiling request comes after it
\* and after every OTLP request; a run whose OTLP outcome is a failure goes
\* straight to exit code 1, with no profiling outcome and no profiling request.
C19_OtlpThenProfiling ==
  /\ \A i \in 1..Len(requests) :
       requests[i].backend = "pyroscope" =>
         /\ otlpResult.done /\ otlpResult.ok
         /\ \A j \in 1..Len(requests) : requests[j].backend = "otlp" => j < i
  /\ (vpc \in {"pyro", "pyroFetch", "pyroDone"} \/ pyroscopeResult.done) =>
       otlpResult.done /\ otlpResult.ok
  /\ (otlpResult.done /\ ~otlpResult.ok) =>
       /\ vpc \in {"otlpDone", "exited"}
       /\ vpc = "exited" => exitCode = Exit(1)
       /\ ~pyroscopeResult.done
       /\ \A i \in 1..Len(requests) : requests[i].backend # "pyroscope"

\* the OTLP probe was sent and refused, the process exited 1, and the
\* profiling backend, configured for Grafana Cloud, was never contacted
C19_Witness ==
  /\ vpc = "exited"
  /\ exitCode = Exit(1)
  /\ otlpReply = StatusReply(401)
  /\ ~otlpResult.ok
  /\ IsGrafanaCloud(Getenv(venv, N_PYROSCOPE_URL))
  /\ ~Falsy(Getenv(venv, N_PYROSCOPE_USER)) /\ ~Falsy(Getenv(venv, N_PYROSCOPE_PASSWORD))
  /\ ~pyroscopeResult.done
  /\ Len(requests) = 1 /\ requests[1].backend = "otlp"

====
